---- MODULE Spec2Model ----
(***************************************************************************)
(* Pre-flight validation of a Terraform plan (validate_deployment.py).     *)
(*                                                                         *)
(* The script loads tfPlan.json, resolves a subscription, then walks the   *)
(* plan's resource_changes in order: every high-risk resource that is      *)
(* created or updated gets a minimal ARM template, which is posted to the  *)
(* deployment validate endpoint; non-200 answers are collected in `errors` *)
(* and the verdict is printed after the loop.                              *)
(*                                                                         *)
(* Python values are modelled as tagged records (None, str, list, dict),   *)
(* dictionaries as functions from key strings, and absent keys as keys     *)
(* outside the DOMAIN, so that dict.get, truthiness and `or` behave as in  *)
(* Python.                                                                 *)
(***************************************************************************)
EXTENDS Integers, Sequences, FiniteSets, TLC

VARIABLES
    pc,              \* position of the script
    planExists,      \* tfplan_path.exists()
    plan,            \* plan["resource_changes"] as loaded from the file
    subscription_id, \* result of select_subscription(), 0 before it returns
    idx,             \* position of the for loop in the plan
    errors,          \* the errors list
    inflight,        \* the request body posted by the pending run_arm_validate
    calls,           \* history: number of requests.post calls per plan index
    outcome,         \* history: the response received per plan index
    selectCalls,     \* history: number of select_subscription() calls
    verdict,         \* which final message was printed
    exitCode,        \* process exit status, -1 while running
    printed,         \* the failure blocks printed, in order
    fatalCause,      \* why the run aborted, "none" otherwise
    rec,             \* RecordSpec: the resource-change record under test
    out              \* RecordSpec: results of the functions applied to rec

vars == <<pc, planExists, plan, subscription_id, idx, errors, inflight, calls,
          outcome, selectCalls, verdict, exitCode, printed, fatalCause, rec, out>>

runVars == <<pc, planExists, plan, subscription_id, idx, errors, inflight, calls,
             outcome, selectCalls, verdict, exitCode, printed, fatalCause>>

----------------------------------------------------------------------------
(* Bounds *)

MaxPlanLen == 2

MaxSubs == 1

----------------------------------------------------------------------------
(* Python values *)

None == [t |-> "null"]

Str(s) == [t |-> "str", s |-> s]

List(l) == [t |-> "list", l |-> l]

Dict(d) == [t |-> "dict", d |-> d]

Chars(c) == [t |-> "chars", c |-> c]

\* Python truthiness of a value
Truthy(v) ==
    CASE v.t = "null" -> FALSE
      [] v.t = "str" -> v.s # ""
      [] v.t = "list" -> v.l # <<>>
      [] v.t = "chars" -> v.c # <<>>
      [] OTHER -> TRUE

\* a or b
PyOr(a, b) == IF Truthy(a) THEN a ELSE b

\* d.get(k, default)
Get(d, k, default) == IF k \in DOMAIN d THEN d[k] ELSE default

\* json.dumps(v, indent=2)
JsonDumps(v) == [t |-> "json", of |-> v]

\* str.replace(old, new) for a one-character old; new is a character sequence
RECURSIVE Replace(_, _, _)
Replace(s, old, new) ==
    IF s = <<>> THEN <<>>
    ELSE (IF Head(s) = old THEN new ELSE <<Head(s)>>) \o Replace(Tail(s), old, new)

\* str(zones) as interpolated by the f-string
FormatList(l) == <<"[">> \o l \o <<"]">>

----------------------------------------------------------------------------
(* Configuration *)

HIGH_RISK_RESOURCES ==
    <<"azurerm_firewall", "azurerm_application_gateway", "azurerm_lb",
      "azurerm_bastion_host">>

VALID_ACTIONS == {"create", "update"}

SeqRange(s) == {s[i] : i \in 1..Len(s)}

----------------------------------------------------------------------------
(* generate_arm_template *)

\* lines 55-56: the firewall's sku
FirewallSku(after) ==
    Dict([name |-> Get(after, "sku_name", Str("AZFW_VNet")), tier |-> Str("Standard")])

\* lines 59-60: the application gateway's sku
AppGatewaySku(after) ==
    Dict([name |-> Get(after, "sku_name", Str("WAF_v2")), tier |-> Str("WAF")])

\* variant of LbSku reading the attribute the other kinds use
LbSku_mut(after) ==
    Dict([name |-> Get(after, "sku_name", Str("Standard"))])

\* lines 63-64: the load balancer's sku
LbSku(after) ==
    Dict([name |-> Get(after, "sku", Str("Standard"))])

\* The result is [raised |-> "", template |-> ...] on return and
\* [raised |-> "ValueError"] when the function raises.
generate_arm_template(resource) ==
    LET res_type == resource.type
        res_name == Replace(Replace(Replace(resource.address, ".", <<"-">>),
                                    "[", <<"-">>), "]", <<>>)
        after    == resource.change.after
        location == Get(after, "location", Str("eastus"))
        res      == [type |-> None, apiVersion |-> Str("2022-08-01"),
                     name |-> Chars(res_name), location |-> location]
        Template(r) ==
            [raised |-> "",
             template |->
                [schema |-> "https://schema.management.azure.com/schemas/2019-04-01/deploymentTemplate.json#",
                 contentVersion |-> "1.0.0.0",
                 resources |-> <<r>>]]
    IN  IF res_type = "azurerm_firewall" THEN
            Template(("sku" :> FirewallSku(after))
                     @@ [res EXCEPT !.type = Str("Microsoft.Network/azureFirewalls")])
        ELSE IF res_type = "azurerm_application_gateway" THEN
            Template(("sku" :> AppGatewaySku(after))
                     @@ [res EXCEPT !.type = Str("Microsoft.Network/applicationGateways")])
        ELSE IF res_type = "azurerm_lb" THEN
            Template(("sku" :> LbSku(after))
                     @@ [res EXCEPT !.type = Str("Microsoft.Network/loadBalancers")])
        ELSE IF res_type = "azurerm_bastion_host" THEN
            Template([res EXCEPT !.type = Str("Microsoft.Network/bastionHosts")])
        ELSE [raised |-> "ValueError"]

----------------------------------------------------------------------------
(* select_subscription *)

\* The subscriptions the management API lists for the credential
Subscriptions(n) == [i \in 1..n |-> [displayName |-> i, subscriptionId |-> i]]

\* credOk: the credential yields a token and the GET succeeds;
\* n: number of subscriptions listed; isInt: int(choice) parses; choice: its value.
\* The result is the subscription id, or 0 when the function raises.
select_subscription(credOk, n, isInt, choice) ==
    LET subscriptions == Subscriptions(n)
        choice_idx    == choice - 1
    IN  IF ~credOk THEN 0
        ELSE IF subscriptions = <<>> THEN 0
        ELSE IF ~isInt \/ choice_idx < 0 \/ choice_idx >= Len(subscriptions) THEN 0
        ELSE subscriptions[choice_idx + 1].subscriptionId

----------------------------------------------------------------------------
(* run_arm_validate *)

\* lines 122-128: the request body
RequestBody(sub, resource_group, template) ==
    [subscription_id |-> sub, resource_group |-> resource_group,
     body |-> [properties |-> [mode |-> "Incremental", template |-> template,
                               parameters |-> <<>>]]]

\* lines 136-143: the (success, message) pair computed from a response
run_arm_validate(resp) ==
    LET payload == resp.payload
    IN  IF resp.status_code = 200
        THEN [success |-> TRUE, msg |-> Str("Validation succeeded")]
        ELSE [success |-> FALSE, msg |-> JsonDumps(Get(payload, "error", Dict(payload)))]

----------------------------------------------------------------------------
(* The loop body *)

\* variant of isInScope requiring every action to be valid
isInScope_mut(resource) ==
    LET actions == SeqRange(resource.change.actions)
    IN  resource.type \in SeqRange(HIGH_RISK_RESOURCES) /\ actions \subseteq VALID_ACTIONS

\* lines 153-154
isInScope(resource) ==
    LET actions == SeqRange(Get(resource.change, "actions", <<>>))
    IN  resource.type \in SeqRange(HIGH_RISK_RESOURCES)
        /\ actions \cap VALID_ACTIONS # {}

\* variant of DiagSku with the two attributes in the other order
DiagSku_mut(after) ==
    PyOr(PyOr(Get(after, "sku", None), Get(after, "sku_name", None)), Str("unknown"))

\* line 160
DiagSku(after) ==
    PyOr(PyOr(Get(after, "sku_name", None), Get(after, "sku", None)), Str("unknown"))

\* line 159 and the f-string of line 174
DiagZones(after) ==
    LET zones == Get(after, "zones", List(<<>>))
    IN  IF Truthy(zones) THEN FormatList(zones.l) ELSE <<"none">>

\* lines 156-176: the block appended for a failed resource
FailureEntry(resource, template, msg) ==
    LET location == template.resources[1].location
        after    == resource.change.after
    IN  [address |-> resource.address, location |-> location,
         sku |-> DiagSku(after), zones |-> DiagZones(after), error |-> msg]

\* variant of AppendError inserting at the front
AppendError_mut(errs, e) == <<e>> \o errs

\* line 170: errors.append
AppendError(errs, e) == Append(errs, e)

\* variant of Verdict with the emptiness test off by one
Verdict_mut(errs) == IF Len(errs) > 1 THEN "fail" ELSE "pass"

\* lines 178-184
Verdict(errs) == IF errs # <<>> THEN "fail" ELSE "pass"

----------------------------------------------------------------------------
(* Inputs *)

OtherType == "azurerm_virtual_network"

AllTypes == SeqRange(HIGH_RISK_RESOURCES) \cup {OtherType}

ActionNames == {"create", "update", "delete", "no-op"}

\* dictionaries with an optional key
OptKey(k, vals) == {<<>>} \cup {k :> v : v \in vals}

\* `after` mappings: every attribute may be absent, null, empty or set
RecAfters ==
    {a @@ b @@ c @@ d :
        a \in OptKey("location", {None, Str("westus")}),
        b \in OptKey("sku_name", {None, Str(""), Str("AZFW_Hub")}),
        c \in OptKey("sku", {None, Str(""), Str("Basic")}),
        d \in OptKey("zones", {None, List(<<>>), List(<<"1">>)})}

RecActionLists ==
    {<<>>} \cup {<<a>> : a \in ActionNames} \cup {<<a, b>> : a \in ActionNames, b \in ActionNames}

RecAddresses ==
    {<<"azurerm_lb", ".", "main">>,
     <<"module", ".", "hub", ".", "azurerm_firewall", ".", "fw", "[", "0", "]">>}

Records ==
    {[address |-> ad, type |-> ty, change |-> [actions |-> ac, after |-> af]] :
        ad \in RecAddresses, ty \in AllTypes, ac \in RecActionLists, af \in RecAfters}

NoRecord == [address |-> <<>>]

\* the resource changes a plan file of the orchestration runs may hold
PlanActionLists == {<<"update">>, <<"delete">>, <<"delete", "create">>}

\* the attributes a resource of each type carries in the plans of the runs
PlanAfter(ty) ==
    CASE ty = "azurerm_firewall" ->
            [location |-> Str("westus"), sku_name |-> Str("AZFW_Hub"), zones |-> List(<<"1">>)]
      [] ty = "azurerm_application_gateway" ->
            [location |-> Str("westus"), zones |-> List(<<>>)]
      [] ty = "azurerm_lb" ->
            [location |-> None, sku |-> Str("Basic"), sku_name |-> Str("")]
      [] ty = "azurerm_bastion_host" -> <<>>
      [] OTHER -> [location |-> Str("westus")]

PlanShapes ==
    {[type |-> ty, change |-> [actions |-> ac, after |-> PlanAfter(ty)]] :
        ty \in AllTypes, ac \in PlanActionLists}

Digits == <<"0", "1", "2", "3", "4", "5", "6", "7", "8", "9">>

\* resource addresses are unique within a plan
PlanAddress(i) == <<"module", ".", "net", "[", Digits[i], "]">>

Plans ==
    UNION {{[i \in 1..n |->
                [address |-> PlanAddress(i), type |-> f[i].type, change |-> f[i].change]] :
            f \in [1..n -> PlanShapes]} : n \in 0..MaxPlanLen}

\* answers of the deployment validate endpoint
OkResponse == [status_code |-> 200, payload |-> [id |-> Str("preflight")]]

Rejection ==
    [status_code |-> 400, payload |-> [error |-> Dict([code |-> Str("SkuNotAvailable")])]]

Unauthorized ==
    [status_code |-> 401, payload |-> [error |-> Dict([code |-> Str("AuthenticationFailed")])]]

Forbidden == [status_code |-> 403, payload |-> [message |-> Str("Forbidden")]]

Responses == {OkResponse, Rejection, Unauthorized, Forbidden}

NoResponse == [status_code |-> 0, payload |-> <<>>]

NoRequest == [subscription_id |-> 0]

----------------------------------------------------------------------------
(* The script *)

Init ==
    /\ pc = "start"
    /\ planExists \in BOOLEAN
    /\ plan \in (IF planExists THEN Plans ELSE {<<>>})
    /\ subscription_id = 0
    /\ idx = 1
    /\ errors = <<>>
    /\ inflight = NoRequest
    /\ calls = [i \in 1..Len(plan) |-> 0]
    /\ outcome = [i \in 1..Len(plan) |-> NoResponse]
    /\ selectCalls = 0
    /\ verdict = "none"
    /\ exitCode = -1
    /\ printed = <<>>
    /\ fatalCause = "none"
    /\ rec = NoRecord
    /\ out = <<>>

\* An uncaught exception or sys.exit(1) before the verdict
Abort(cause) ==
    /\ pc' = "fatal"
    /\ fatalCause' = cause
    /\ exitCode' = 1

\* variant of CheckPlan without the sys.exit(1)
CheckPlan_mut ==
    /\ pc = "start"
    /\ pc' = "select"
    /\ UNCHANGED <<planExists, plan, subscription_id, idx, errors, inflight, calls,
                   outcome, selectCalls, verdict, exitCode, printed, fatalCause, rec, out>>

\* lines 19-25
CheckPlan ==
    /\ pc = "start"
    /\ IF planExists
       THEN pc' = "select" /\ UNCHANGED <<fatalCause, exitCode>>
       ELSE Abort("plan_missing")
    /\ UNCHANGED <<planExists, plan, subscription_id, idx, errors, inflight, calls,
                   outcome, selectCalls, verdict, printed, rec, out>>

\* line 147
SelectSubscription ==
    /\ pc = "select"
    /\ selectCalls' = selectCalls + 1
    /\ \E credOk \in BOOLEAN, n \in 0..MaxSubs, isInt \in BOOLEAN, choice \in 0..(MaxSubs + 1) :
          LET id == select_subscription(credOk, n, isInt, choice)
          IN  IF id = 0
              THEN Abort("subscription") /\ UNCHANGED subscription_id
              ELSE /\ subscription_id' = id
                   /\ pc' = "loop"
                   /\ UNCHANGED <<fatalCause, exitCode>>
    /\ UNCHANGED <<planExists, plan, idx, errors, inflight, calls, outcome, verdict,
                   printed, rec, out>>

\* lines 152-154, condition false
SkipResource ==
    /\ pc = "loop"
    /\ idx <= Len(plan)
    /\ ~isInScope(plan[idx])
    /\ idx' = idx + 1
    /\ UNCHANGED <<pc, planExists, plan, subscription_id, errors, inflight, calls, outcome,
                   selectCalls, verdict, exitCode, printed, fatalCause, rec, out>>

\* lines 152-167 up to requests.post of line 135
SubmitValidation ==
    /\ pc = "loop"
    /\ idx <= Len(plan)
    /\ isInScope(plan[idx])
    /\ LET r == generate_arm_template(plan[idx])
       IN  IF r.raised # ""
           THEN Abort("unsupported_kind") /\ UNCHANGED <<inflight, calls>>
           ELSE /\ inflight' = RequestBody(subscription_id, "preflight-rg", r.template)
                /\ calls' = [calls EXCEPT ![idx] = @ + 1]
                /\ pc' = "awaiting"
                /\ UNCHANGED <<fatalCause, exitCode>>
    /\ UNCHANGED <<planExists, plan, subscription_id, idx, errors, outcome, selectCalls,
                   verdict, printed, rec, out>>

\* variant of ReceiveResponse leaving the loop at the first failure
ReceiveResponse_mut ==
    /\ pc = "awaiting"
    /\ \E resp \in Responses :
          LET v == run_arm_validate(resp)
              template == inflight.body.properties.template
          IN  /\ outcome' = [outcome EXCEPT ![idx] = resp]
              /\ IF ~v.success
                 THEN /\ errors' = AppendError(errors, FailureEntry(plan[idx], template, v.msg))
                      /\ idx' = Len(plan) + 1
                 ELSE /\ UNCHANGED errors
                      /\ idx' = idx + 1
    /\ inflight' = NoRequest
    /\ pc' = "loop"
    /\ UNCHANGED <<planExists, plan, subscription_id, calls, selectCalls, verdict,
                   exitCode, printed, fatalCause, rec, out>>

\* lines 135-143 and 169-176: the endpoint answers
ReceiveResponse ==
    /\ pc = "awaiting"
    /\ \E resp \in Responses :
          LET v == run_arm_validate(resp)
              template == inflight.body.properties.template
          IN  /\ outcome' = [outcome EXCEPT ![idx] = resp]
              /\ IF ~v.success
                 THEN errors' = AppendError(errors, FailureEntry(plan[idx], template, v.msg))
                 ELSE UNCHANGED errors
    /\ inflight' = NoRequest
    /\ idx' = idx + 1
    /\ pc' = "loop"
    /\ UNCHANGED <<planExists, plan, subscription_id, calls, selectCalls, verdict,
                   exitCode, printed, fatalCause, rec, out>>

\* lines 135-136: requests.post or resp.json() raises (connection error, body not JSON)
TransportError ==
    /\ pc = "awaiting"
    /\ Abort("transport")
    /\ UNCHANGED <<planExists, plan, subscription_id, idx, errors, inflight, calls,
                   outcome, selectCalls, verdict, printed, rec, out>>

\* line 135: requests.post is called without timeout=, so it blocks for as long as
\* the endpoint sends nothing
ProviderSilent ==
    /\ pc = "awaiting"
    /\ pc' = "hung"
    /\ UNCHANGED <<planExists, plan, subscription_id, idx, errors, inflight, calls,
                   outcome, selectCalls, verdict, exitCode, printed, fatalCause, rec, out>>

\* lines 178-184
Finish ==
    /\ pc = "loop"
    /\ idx > Len(plan)
    /\ verdict' = Verdict(errors)
    /\ printed' = errors
    /\ exitCode' = IF Verdict(errors) = "fail" THEN 1 ELSE 0
    /\ pc' = "done"
    /\ UNCHANGED <<planExists, plan, subscription_id, idx, errors, inflight, calls,
                   outcome, selectCalls, fatalCause, rec, out>>

Next ==
    \/ CheckPlan
    \/ SelectSubscription
    \/ SkipResource
    \/ SubmitValidation
    \/ ReceiveResponse
    \/ TransportError
    \/ ProviderSilent
    \/ Finish

Spec == Init /\ [][Next]_vars

\* The interpreter runs the script's next statement whenever there is one; nothing
\* obliges the endpoint to answer, and in pc = "hung" no statement is enabled.
FairSpec == Spec /\ WF_vars(Next)

----------------------------------------------------------------------------
(* The per-record functions, applied to every record *)

RecInit ==
    /\ rec \in Records
    /\ out = <<>>
    /\ pc = "record"
    /\ planExists = TRUE
    /\ plan = <<>>
    /\ subscription_id = 0
    /\ idx = 1
    /\ errors = <<>>
    /\ inflight = NoRequest
    /\ calls = <<>>
    /\ outcome = <<>>
    /\ selectCalls = 0
    /\ verdict = "none"
    /\ exitCode = -1
    /\ printed = <<>>
    /\ fatalCause = "none"

\* line 154 on rec
Classify ==
    /\ DOMAIN out = {}
    /\ out' = [scope |-> isInScope(rec)]
    /\ UNCHANGED <<rec, runVars>>

\* line 155 on rec
Synthesize ==
    /\ DOMAIN out = {"scope"}
    /\ out' = out @@ [synth |-> generate_arm_template(rec)]
    /\ UNCHANGED <<rec, runVars>>

\* lines 156-176 on rec, for a selected record whose validation was rejected
Diagnose ==
    /\ DOMAIN out = {"scope", "synth"}
    /\ out.scope
    /\ out.synth.raised = ""
    /\ out' = out @@ [entry |-> FailureEntry(rec, out.synth.template,
                                             run_arm_validate(Rejection).msg)]
    /\ UNCHANGED <<rec, runVars>>

RecNext ==
    \/ Classify
    \/ Synthesize
    \/ Diagnose

RecordSpec == RecInit /\ [][RecNext]_vars

----------------------------------------------------------------------------
(* What the specification says, stated without the definitions above *)

SpecHighRisk ==
    {"azurerm_firewall", "azurerm_application_gateway", "azurerm_lb", "azurerm_bastion_host"}

\* a record is selected: high-risk type, and create or update among its actions
Selected(r) ==
    /\ r.type \in SpecHighRisk
    /\ \E k \in 1..Len(r.change.actions) : r.change.actions[k] \in {"create", "update"}

\* the validation of plan entry i came back with a non-success answer
Failed(i) == outcome[i].status_code \notin {0, 200}

EntriesFor(seq, i) == {k \in 1..Len(seq) : seq[k].address = plan[i].address}

\* the provider's error detail: the error member of the body, else the whole body
ErrorDetail(payload) == IF "error" \in DOMAIN payload THEN payload.error ELSE Dict(payload)

PosOf(address) == CHOOSE i \in 1..Len(plan) : plan[i].address = address

InPlanOrder(seq) ==
    \A p \in 1..Len(seq) : \A q \in 1..Len(seq) :
        p < q => PosOf(seq[p].address) < PosOf(seq[q].address)

Present(d, k) == k \in DOMAIN d /\ d[k] # None

NonEmpty(d, k) == Present(d, k) /\ d[k] \notin {Str(""), List(<<>>)}

\* C1: when a run completes, the verdict is pass (exit 0) iff the failure sequence is
\* empty, and the failure sequence holds exactly one entry, with the address and the
\* provider's error detail, for each selected resource whose validation came back
\* non-success, and no entry for any other resource.
C1_VerdictMatchesFailures ==
    pc = "done" =>
        /\ verdict \in {"pass", "fail"}
        /\ (verdict = "pass") <=> (errors = <<>>)
        /\ (exitCode = 0) <=> (verdict = "pass")
        /\ printed = errors
        /\ \A i \in 1..Len(plan) :
              IF Selected(plan[i]) /\ Failed(i)
              THEN /\ Cardinality(EntriesFor(errors, i)) = 1
                   /\ \A k \in EntriesFor(errors, i) :
                         errors[k].error = JsonDumps(ErrorDetail(outcome[i].payload))
              ELSE EntriesFor(errors, i) = {}
        /\ Len(errors) = Cardinality({i \in 1..Len(plan) : Selected(plan[i]) /\ Failed(i)})

C1_Witness ==
    /\ pc = "done"
    /\ verdict = "fail"
    /\ Len(plan) = 2
    /\ Len(errors) = 1
    /\ outcome[1].status_code = 200
    /\ outcome[2].status_code = 400

\* C2: the verdict is emitted only after every selected resource has had exactly one
\* validation call, a non-success answer never ends the run, no call is ever issued
\* for a resource that is not selected, and a plan without selected resources ends
\* with no call, no failure and a pass.
C2_EveryResourceValidatedOnce ==
    /\ \A i \in 1..Len(plan) :
          /\ calls[i] <= 1
          /\ ~Selected(plan[i]) => calls[i] = 0
    /\ verdict # "none" =>
          \A i \in 1..Len(plan) : Selected(plan[i]) => calls[i] = 1 /\ outcome[i] # NoResponse
    /\ \A i \in 1..Len(plan) : Failed(i) => ~(pc \in {"fatal", "hung"} /\ idx = i)
    /\ (pc = "done" /\ \A i \in 1..Len(plan) : ~Selected(plan[i])) =>
          /\ errors = <<>>
          /\ verdict = "pass"
          /\ \A i \in 1..Len(plan) : calls[i] = 0

C2_Witness ==
    /\ pc = "done"
    /\ Len(plan) = 2
    /\ outcome[1].status_code = 400
    /\ calls[1] = 1
    /\ calls[2] = 1

\* C3: a record is selected for validation iff its type is one of the four high-risk
\* types and its actions contain create or update.
C3_SelectedIffHighRiskAndActionable ==
    "scope" \in DOMAIN out => (out.scope <=> Selected(rec))

C3_Witness ==
    /\ "scope" \in DOMAIN out
    /\ rec.type = "azurerm_lb"
    /\ rec.change.actions = <<"delete">>
    /\ out.scope = FALSE

\* C4: the entries of the failure sequence, and the blocks printed from it, are in the
\* order of their resources in the plan.
C4_FailuresInPlanOrder ==
    /\ InPlanOrder(errors)
    /\ InPlanOrder(printed)

C4_Witness ==
    /\ pc = "done"
    /\ Len(printed) = 2
    /\ printed[1].address = plan[1].address
    /\ printed[2].address = plan[2].address

\* C5: a validation call that ends in an authorization failure (401, 403) is never
\* recorded in the failure sequence like a provider rejection.
C5_AuthFailureNotRecordedAsRejection ==
    \A i \in 1..Len(plan) :
        outcome[i].status_code \in {401, 403} => EntriesFor(errors, i) = {}

\* C6: every run ends with a verdict or a fatal error, also when the provider does not
\* answer a validation call.
C6_RunTerminates == <>(pc \in {"done", "fatal"})

\* the per-kind rule table of C7
RuleTable ==
    [azurerm_firewall |->
        [armType |-> "Microsoft.Network/azureFirewalls", skuAttr |-> "sku_name",
         skuDefault |-> "AZFW_VNet", tier |-> "Standard"],
     azurerm_application_gateway |->
        [armType |-> "Microsoft.Network/applicationGateways", skuAttr |-> "sku_name",
         skuDefault |-> "WAF_v2", tier |-> "WAF"],
     azurerm_lb |->
        [armType |-> "Microsoft.Network/loadBalancers", skuAttr |-> "sku",
         skuDefault |-> "Standard", tier |-> ""],
     azurerm_bastion_host |->
        [armType |-> "Microsoft.Network/bastionHosts", skuAttr |-> "",
         skuDefault |-> "", tier |-> ""]]

\* C7: generate_arm_template agrees with the rule table: the provider type, the sku
\* name copied from the rule's attribute when `after` has it and defaulted otherwise,
\* the tier where the rule has one, no field besides type, apiVersion, name, location
\* and sku; for a type without a rule it raises and returns no descriptor.
C7_TemplateFollowsRuleTable ==
    "synth" \in DOMAIN out =>
        LET r == out.synth
            after == rec.change.after
        IN  IF rec.type \in DOMAIN RuleTable
            THEN LET rule == RuleTable[rec.type]
                     res == r.template.resources[1]
                 IN  /\ r.raised = ""
                     /\ Len(r.template.resources) = 1
                     /\ res.type = Str(rule.armType)
                     /\ DOMAIN res = {"type", "apiVersion", "name", "location"}
                                        \cup (IF rule.skuAttr # "" THEN {"sku"} ELSE {})
                     /\ rule.skuAttr # "" =>
                           /\ res.sku.t = "dict"
                           /\ DOMAIN res.sku.d =
                                 {"name"} \cup (IF rule.tier # "" THEN {"tier"} ELSE {})
                           /\ res.sku.d.name =
                                 (IF rule.skuAttr \in DOMAIN after
                                  THEN after[rule.skuAttr] ELSE Str(rule.skuDefault))
                           /\ rule.tier # "" => res.sku.d.tier = Str(rule.tier)
            ELSE /\ r.raised = "ValueError"
                 /\ DOMAIN r = {"raised"}

C7_Witness ==
    /\ "synth" \in DOMAIN out
    /\ rec.type = "azurerm_firewall"
    /\ rec.change.actions = <<"create">>
    /\ rec.change.after = [location |-> Str("westus"), sku_name |-> Str("AZFW_Hub")]
    /\ out.synth.template.resources[1].type = Str("Microsoft.Network/azureFirewalls")
    /\ out.synth.template.resources[1].location = Str("westus")
    /\ out.synth.template.resources[1].sku = Dict([name |-> Str("AZFW_Hub"), tier |-> Str("Standard")])

\* C8: every descriptor synthesized for a selected record has a non-null location: the
\* plan's location when it supplies one, eastus when the attribute is absent or null.
C8_LocationNeverNull ==
    ("synth" \in DOMAIN out /\ out.scope /\ out.synth.raised = "") =>
        LET location == out.synth.template.resources[1].location
            after == rec.change.after
        IN  /\ location # None
            /\ location = (IF Present(after, "location") THEN after.location ELSE Str("eastus"))

\* C9: a fatal fault aborts the run: with the plan file missing nothing is processed (no
\* subscription resolution, no validation call); when subscription resolution fails no
\* validation call is issued; when synthesis raises no further call is issued; and the
\* run then ends without a verdict and with a non-zero exit status.
C9_FatalFaultAborts ==
    /\ ~planExists =>
          /\ pc \in {"start", "fatal"}
          /\ selectCalls = 0
          /\ subscription_id = 0
          /\ inflight = NoRequest
    /\ fatalCause = "subscription" =>
          /\ inflight = NoRequest
          /\ \A i \in 1..Len(plan) : calls[i] = 0
    /\ fatalCause = "unsupported_kind" =>
          /\ inflight = NoRequest
          /\ \A i \in idx..Len(plan) : calls[i] = 0
    /\ fatalCause # "none" =>
          /\ pc = "fatal"
          /\ verdict = "none"
          /\ printed = <<>>
          /\ exitCode = 1
    /\ pc = "fatal" => fatalCause # "none"

C9_Witness ==
    /\ fatalCause = "subscription"
    /\ pc = "fatal"
    /\ Len(plan) = 2
    /\ Selected(plan[1])
    /\ calls[1] = 0

\* the zones of a failure entry, as C10 states them
SpecZones(after) ==
    IF NonEmpty(after, "zones") THEN FormatList(after.zones.l) ELSE <<"none">>

\* C10 as stated: the SKU of a failure entry is after.sku when present and non-empty,
\* otherwise after.sku_name when present and non-empty, otherwise unknown; the zones
\* are after.zones when non-empty, otherwise none.
C10_SkuPrefersSku ==
    "entry" \in DOMAIN out =>
        LET after == rec.change.after
        IN  /\ out.entry.sku =
                 (IF NonEmpty(after, "sku") THEN after.sku
                  ELSE IF NonEmpty(after, "sku_name") THEN after.sku_name
                  ELSE Str("unknown"))
            /\ out.entry.zones = SpecZones(after)

\* C10 amended: the SKU of a failure entry is after.sku_name when present and
\* non-empty, otherwise after.sku when present and non-empty, otherwise unknown; the
\* zones are after.zones when non-empty, otherwise none. Both come from `after` alone.
C10_SkuPrefersSkuName ==
    "entry" \in DOMAIN out =>
        LET after == rec.change.after
        IN  /\ out.entry.sku =
                 (IF NonEmpty(after, "sku_name") THEN after.sku_name
                  ELSE IF NonEmpty(after, "sku") THEN after.sku
                  ELSE Str("unknown"))
            /\ out.entry.zones = SpecZones(after)

C10_Witness ==
    /\ "entry" \in DOMAIN out
    /\ rec.type = "azurerm_lb"
    /\ Present(rec.change.after, "sku") /\ rec.change.after.sku = Str("Basic")
    /\ Present(rec.change.after, "sku_name") /\ rec.change.after.sku_name = Str("AZFW_Hub")
    /\ out.entry.sku = Str("AZFW_Hub")
    /\ out.synth.template.resources[1].sku.d.name = Str("Basic")
    /\ out.entry.zones = <<"none">>

====
